---------------------------- MODULE Spec2Model ----------------------------
(***************************************************************************)
(* DashboardService (src/src/services/dashboard.service.ts): the two read  *)
(* operations getOverview and getCharts, which run one aggregation over    *)
(* the Dashboard collection, and the three create operations, which        *)
(* validate a referenced user and then issue one findByIdAndUpdate with    *)
(* $addToSet.                                                              *)
(*                                                                         *)
(* Spec      the create operations as concurrent calls that interleave at  *)
(*           their await points, over a Dashboard collection whose         *)
(*           documents exist from the start with empty collections.        *)
(* SpecRead  the read operations applied to a Dashboard collection drawn   *)
(*           from a bounded set of contents.                               *)
(***************************************************************************)
EXTENDS Integers, Sequences, FiniteSets, TLC

VARIABLES dashboards, calls, resp

vars == <<dashboards, calls, resp>>

(***************************************************************************)
(* Bounds of the model.                                                    *)
(***************************************************************************)
\* number of create calls of one behaviour
MaxCalls == 2
\* number of entries a Dashboard collection holds when the reads start
MaxEntries == 2

(***************************************************************************)
(* Identifiers.  Users and dashboard documents draw their identifiers from *)
(* one space (ObjectId); a userId argument is any identifier.              *)
(***************************************************************************)
IdOrder == <<"id1", "id2">>
Ids == {IdOrder[i] : i \in DOMAIN IdOrder}
\* the identifiers that resolve to a user in the user directory
Users == Ids
\* the user references the entries hold: a user, and an identifier of no user
Refs == {"id1", "id3"}

\* an absent optional argument (undefined)
NoDate == [y |-> 0, m |-> 0, d |-> 0]
NoNumber == 0

Dates ==
    { [y |-> 2024, m |-> 1, d |-> 1],
      [y |-> 2024, m |-> 2, d |-> 1],
      [y |-> 2025, m |-> 1, d |-> 2] }
Amounts == {1, 2}
Statuses == {"Pending", "Paid"}

\* const expenseTypes
expenseTypes == <<"Transfer between cards", "Cash withdrawn", "Food", "Taxes", "Rent">>
Categories == {"Food", "Rent"}

\* const months = getMonths()
months ==
    <<"January", "February", "March", "April", "May", "June", "July",
      "August", "September", "October", "November", "December">>

\* the values new Date().getMonth() takes in the model
NowMonths == {0, 1, 2}

(***************************************************************************)
(* Entries and documents.                                                  *)
(***************************************************************************)
IDashboardRevenue(amounts, dates, refs) ==
    [amount : amounts, date : dates, source : refs]
IDashboardReceivable(amounts, dates, refs) ==
    [amount : amounts, date : dates, status : Statuses, client : refs]
IDashboardExpense(amounts, dates) ==
    [amount : amounts, date : dates, category : Categories]

EmptyDashboard(user) ==
    [user |-> user, revenues |-> <<>>, receivables |-> <<>>, expenses |-> <<>>]

Range(s) == {s[i] : i \in DOMAIN s}

RECURSIVE SumAt(_, _)
\* the sum of the amounts of the elements of an array at the given positions
SumAt(array, positions) ==
    IF positions = {} THEN 0
    ELSE LET i == CHOOSE p \in positions : TRUE
         IN  array[i].amount + SumAt(array, positions \ {i})

\* $sum over the amount of every element of an array
SumAmounts(array) == SumAt(array, DOMAIN array)


(***************************************************************************)
(* The collaborators of the service.                                       *)
(***************************************************************************)
\* UserService.getUserById(id): resolves, or throws the not-found error
getUserById(id) == id \in Users

\* Mongoose casts the entry of an update by the Dashboard schema before it
\* is sent; the schema adds no field to it
castUpdate(entry) == entry

\* $addToSet with $set written in its place
AddToSet_overwrite(array, entry) == <<entry>>

\* $addToSet with $push written in its place
AddToSet_push(array, entry) == Append(array, entry)

\* { $addToSet: { <field>: entry } }: appended unless an equal element is there
AddToSet(array, entry) ==
    IF entry \in Range(array) THEN array ELSE Append(array, entry)

\* the collection each create operation updates
Field(op) ==
    CASE op = "createRevenue" -> "revenues"
      [] op = "createReceivable" -> "receivables"
      [] op = "createExpense" -> "expenses"

\* the user reference each create operation validates
Reference(op, entry) ==
    CASE op = "createRevenue" -> entry.source
      [] op = "createReceivable" -> entry.client

\* Dashboard.findByIdAndUpdate(userId, {$addToSet: ...}, {new: true}): the
\* document whose _id is userId, updated; the collection is unchanged when
\* there is no such document
findByIdAndUpdate(collection, userId, field, entry) ==
    IF userId \in DOMAIN collection
    THEN [collection EXCEPT
            ![userId] = [@ EXCEPT ![field] = AddToSet(@, castUpdate(entry))]]
    ELSE collection

(***************************************************************************)
(* The create operations.  A call is at an await point or done.            *)
(***************************************************************************)
CallIds == 1..MaxCalls
CreateOps == {"createRevenue", "createReceivable", "createExpense"}
Validating == {"createRevenue", "createReceivable"}

NoEntry == [amount |-> 0]
NoDoc == EmptyDashboard("none")
Idle ==
    [op |-> "none", userId |-> "none", entry |-> NoEntry, pc |-> "idle",
     result |-> "none", returned |-> NoDoc]

\* no read has returned
NoResp == [op |-> "none"]

\* the entries the callers pass to the create operations
NewDates == {[y |-> 2024, m |-> 1, d |-> 1]}
NewEntries(op) ==
    CASE op = "createRevenue" -> IDashboardRevenue(Amounts, NewDates, Refs)
      [] op = "createReceivable" ->
            IDashboardReceivable(Amounts, NewDates, Refs)
      [] op = "createExpense" ->
            IDashboardExpense(Amounts, NewDates)

\* createExpense awaits the update at once
FirstStep_unvalidated(op) == "findByIdAndUpdate"

\* the first await of each create operation
FirstStep(op) ==
    IF op \in Validating THEN "getUserById" ELSE "findByIdAndUpdate"

\* a caller invokes a create operation
Invoke(c, op, userId, entry) ==
    /\ calls[c].pc = "idle"
    /\ c > 1 => calls[c - 1].pc # "idle"
    /\ calls' = [calls EXCEPT ![c] =
            [op |-> op, userId |-> userId, entry |-> entry, pc |-> FirstStep(op),
             result |-> "none", returned |-> NoDoc]]
    /\ UNCHANGED <<dashboards, resp>>

\* await UserService.getUserById(...): its failure leaves the operation
GetUserByIdStep(c) ==
    /\ calls[c].pc = "getUserById"
    /\ calls' = [calls EXCEPT ![c] =
            IF getUserById(Reference(calls[c].op, calls[c].entry))
            THEN [@ EXCEPT !.pc = "findByIdAndUpdate"]
            ELSE [@ EXCEPT !.pc = "done", !.result = "UserNotFound"]]
    /\ UNCHANGED <<dashboards, resp>>

\* await Dashboard.findByIdAndUpdate(...); if (!dashboard) throw; return dashboard
FindByIdAndUpdateStep(c) ==
    /\ calls[c].pc = "findByIdAndUpdate"
    /\ dashboards' =
            findByIdAndUpdate(dashboards, calls[c].userId, Field(calls[c].op), calls[c].entry)
    /\ calls' = [calls EXCEPT ![c] =
            IF calls[c].userId \in DOMAIN dashboards
            THEN [@ EXCEPT !.pc = "done", !.result = "ok",
                           !.returned = dashboards'[calls[c].userId]]
            ELSE [@ EXCEPT !.pc = "done", !.result = "DashboardDataNotFound"]]
    /\ UNCHANGED resp

(***************************************************************************)
(* The Dashboard collection: at most one document per user, each with an   *)
(* _id of its own.                                                         *)
(***************************************************************************)
Layouts ==
    { f \in UNION { [S -> Users] : S \in SUBSET Ids } : TRUE }

(***************************************************************************)
(* Dates.  A date is a calendar day; $month and $dayOfMonth read its m and *)
(* d, and $gte, $lte compare days in calendar order.                       *)
(***************************************************************************)
DateNum(date) == date.y * 10000 + date.m * 100 + date.d
DateGte(a, b) == DateNum(a) >= DateNum(b)
DateLte(a, b) == DateNum(a) <= DateNum(b)

(***************************************************************************)
(* createDateFilter(date, month, year) of utils/date: the empty object     *)
(* when neither a date nor a year is given, else a date predicate: the     *)
(* exact day, or the month of the year, or the year.                       *)
(***************************************************************************)
createDateFilter(date, month, year) ==
    IF date # NoDate
    THEN [kind |-> "day", date |-> date, month |-> NoNumber, year |-> NoNumber]
    ELSE IF year # NoNumber
    THEN IF month # NoNumber
         THEN [kind |-> "month", date |-> NoDate, month |-> month, year |-> year]
         ELSE [kind |-> "year", date |-> NoDate, month |-> NoNumber, year |-> year]
    ELSE [kind |-> "none", date |-> NoDate, month |-> NoNumber, year |-> NoNumber]

\* the date predicate of a date filter
DateMatches(dateFilter, date) ==
    CASE dateFilter.kind = "day" -> date = dateFilter.date
      [] dateFilter.kind = "month" ->
            date.y = dateFilter.year /\ date.m = dateFilter.month
      [] dateFilter.kind = "year" -> date.y = dateFilter.year
      [] dateFilter.kind = "none" -> TRUE

\* the field path the date filter names: an array path matches a document
\* when some element of the array satisfies the predicate, and a path the
\* document lacks matches no document
DateFilterPaths == {"revenues.date", "receivables.date", "expenses.date", "date"}

\* the positions of an array whose element has a date of the predicate
Matching(array, dateFilter) ==
    { i \in DOMAIN array : DateMatches(dateFilter, array[i].date) }

MatchesDateFilter(doc, dateFilter, path) ==
    CASE path = "revenues.date" -> Matching(doc.revenues, dateFilter) # {}
      [] path = "receivables.date" -> Matching(doc.receivables, dateFilter) # {}
      [] path = "expenses.date" -> Matching(doc.expenses, dateFilter) # {}
      [] path = "date" -> FALSE

(***************************************************************************)
(* The aggregation pipeline: $match keeps whole documents, in _id order,   *)
(* and $project computes one row from each kept document.                  *)
(***************************************************************************)
Kept(matched) == SelectSeq(IdOrder, LAMBDA id : id \in matched)

\* a value of the aggregation language, with its BSON type
ArrayValue(s) == [t |-> "array", v |-> s]
StringValue(s) == [t |-> "string", v |-> s]

\* the path '$<array>.status': the array of the elements' status
StatusPath(array) == ArrayValue([i \in DOMAIN array |-> array[i].status])

\* $eq: values of different types are not equal
Eq(a, b) == a.t = b.t /\ a.v = b.v

\* pendingReceivables: $sum of $cond[$eq['$receivables.status', 'Pending'],
\* '$receivables.amount', 0]
pendingReceivables(receivables) ==
    IF Eq(StatusPath(receivables), StringValue("Pending"))
    THEN SumAmounts(receivables)
    ELSE 0

\* the $match with its user condition left out
MatchUser_any(doc, userId) == TRUE

\* the user field of the $match of both reads
MatchUser(doc, userId) == doc.user = userId

\* matchConditions of getOverview
OverviewMatch(doc, userId, dateFilter, path) ==
    /\ MatchUser(doc, userId)
    /\ dateFilter.kind # "none" => MatchesDateFilter(doc, dateFilter, path)

\* the $project of getOverview
OverviewProject(id, doc) ==
    [_id |-> id,
     totalRevenue |-> SumAmounts(doc.revenues),
     totalReceivables |-> SumAmounts(doc.receivables),
     pendingReceivables |-> pendingReceivables(doc.receivables),
     totalExpenses |-> SumAmounts(doc.expenses)]

\* what getOverview(userId, filter) returns
OverviewResult(collection, userId, filter, path) ==
    LET dateFilter == createDateFilter(filter.date, filter.month, filter.year)
        kept == Kept({ id \in DOMAIN collection :
                        OverviewMatch(collection[id], userId, dateFilter, path) })
    IN  [i \in DOMAIN kept |-> OverviewProject(kept[i], collection[kept[i]])]

(***************************************************************************)
(* getCharts.                                                              *)
(***************************************************************************)
\* Array.prototype.indexOf: the zero-based position, or -1
IndexOf(s, x) ==
    IF \E i \in DOMAIN s : s[i] = x
    THEN (CHOOSE i \in DOMAIN s : s[i] = x /\ \A j \in DOMAIN s : s[j] = x => i <= j) - 1
    ELSE -1

\* months.slice(0, currentMonth)
Labels(currentMonth) == SubSeq(months, 1, currentMonth)

\* getDaysList() of utils/getDaysList: "01" .. "31", each label its two digits
DaysInList == 31
dayLabels == [i \in 1..DaysInList |-> <<i \div 10, i % 10>>]

\* $toInt of a day label
ToInt(day) == day[1] * 10 + day[2]

\* months.indexOf('$$month') + 1: computed when the pipeline is built, from
\* the literal text '$$month', once for all labels
MonthOperand == IndexOf(months, "$$month") + 1

\* revenueDataSet / expensesDataSet of revenuesAndExpensesLineChart
MonthDataSet(labels, array) ==
    [i \in 1..Len(labels) |->
        SumAt(array, { k \in DOMAIN array : array[k].date.m = MonthOperand })]

\* datasets of expensesDoughnut
DoughnutDataSet(expenses) ==
    [i \in 1..Len(expenseTypes) |->
        SumAt(expenses, { k \in DOMAIN expenses : expenseTypes[i] = expenses[k].category })]

\* revenueDataSet / expensesDataSet of currentMonthExpensesAndRevenuesBarChart
DayDataSet(array) ==
    [i \in 1..Len(dayLabels) |->
        SumAt(array, { k \in DOMAIN array : array[k].date.d = ToInt(dayLabels[i]) })]

\* filterOptions of getCharts: each bound adds one condition on
\* 'revenues.date' and one on 'expenses.date'
ChartsMatch(doc, userId, startDate, endDate) ==
    /\ MatchUser(doc, userId)
    /\ startDate # NoDate =>
          /\ \E i \in DOMAIN doc.revenues : DateGte(doc.revenues[i].date, startDate)
          /\ \E i \in DOMAIN doc.expenses : DateGte(doc.expenses[i].date, startDate)
    /\ endDate # NoDate =>
          /\ \E i \in DOMAIN doc.revenues : DateLte(doc.revenues[i].date, endDate)
          /\ \E i \in DOMAIN doc.expenses : DateLte(doc.expenses[i].date, endDate)

\* the $project of getCharts
ChartsProject(id, doc, currentMonth) ==
    [_id |-> id,
     revenuesAndExpensesLineChart |->
        [labels |-> Labels(currentMonth),
         revenueDataSet |-> MonthDataSet(Labels(currentMonth), doc.revenues),
         expensesDataSet |-> MonthDataSet(Labels(currentMonth), doc.expenses)],
     expensesDoughnut |->
        [labels |-> expenseTypes, datasets |-> DoughnutDataSet(doc.expenses)],
     currentMonthExpensesAndRevenuesBarChart |->
        [currentMonth |-> currentMonth,
         labels |-> dayLabels,
         revenueDataSet |-> DayDataSet(doc.revenues),
         expensesDataSet |-> DayDataSet(doc.expenses)]]

\* what getCharts(userId, filter) returns when new Date().getMonth() is
\* currentMonth
ChartsResult(collection, userId, filter, currentMonth) ==
    LET kept == Kept({ id \in DOMAIN collection :
                        ChartsMatch(collection[id], userId, filter.startDate,
                                    filter.endDate) })
    IN  [i \in DOMAIN kept |-> ChartsProject(kept[i], collection[kept[i]], currentMonth)]

(***************************************************************************)
(* The read operations: one aggregation each, nothing written.  resp holds *)
(* what the read of a behaviour returned; a behaviour holds one read, as a *)
(* second one would see the same collection.                               *)
(***************************************************************************)
OptionalDates == Dates \cup {NoDate}

\* the filters the callers pass to getOverview
OverviewFilters ==
    [date : OptionalDates, month : {NoNumber}, year : {NoNumber}]
    \cup [date : {NoDate}, month : {NoNumber, 1, 2}, year : {2024, 2025}]

\* the filters the callers pass to getCharts
ChartsFilters ==
    { f \in [startDate : OptionalDates, endDate : OptionalDates] :
        f.startDate = NoDate \/ f.endDate = NoDate \/ DateLte(f.startDate, f.endDate) }

GetOverview(userId, filter, path) ==
    /\ resp = NoResp
    /\ resp' = [op |-> "getOverview", userId |-> userId, filter |-> filter,
                result |-> OverviewResult(dashboards, userId, filter, path)]
    /\ UNCHANGED <<dashboards, calls>>

GetCharts(userId, filter, currentMonth) ==
    /\ resp = NoResp
    /\ resp' = [op |-> "getCharts", userId |-> userId, filter |-> filter,
                result |-> ChartsResult(dashboards, userId, filter, currentMonth)]
    /\ UNCHANGED <<dashboards, calls>>

Init ==
    /\ \E layout \in Layouts :
          /\ \A i, j \in DOMAIN layout : layout[i] = layout[j] => i = j
          /\ dashboards = [id \in DOMAIN layout |-> EmptyDashboard(layout[id])]
    /\ calls = [c \in CallIds |-> Idle]
    /\ resp = NoResp

Next ==
    \E c \in CallIds :
        \/ \E op \in CreateOps, userId \in Ids :
              \E entry \in NewEntries(op) : Invoke(c, op, userId, entry)
        \/ GetUserByIdStep(c)
        \/ FindByIdAndUpdateStep(c)

Spec == Init /\ [][Next]_vars

(***************************************************************************)
(* The reads, over a Dashboard collection that holds up to MaxEntries      *)
(* entries, and one read of it.  No result depends on the order of a       *)
(* collection, so each stored collection is taken in date order.           *)
(***************************************************************************)
Rank(entry) ==
    DateNum(entry.date) * 100 + entry.amount * 10
    + (IF "status" \in DOMAIN entry /\ entry.status = "Pending" THEN 1 ELSE 0)
    + (IF "category" \in DOMAIN entry /\ entry.category = "Food" THEN 1 ELSE 0)

Stored(values, n) ==
    { s \in [1..n -> values] : \A i, j \in 1..n : i < j => Rank(s[i]) < Rank(s[j]) }

\* the amount of the stored entries of a date: 1, 2, 4 in date order, so
\* that a sum tells which dates it covers
AmountOn(date) ==
    LET earlier == Cardinality({d \in Dates : DateNum(d) < DateNum(date)})
    IN  IF earlier = 0 THEN 1 ELSE IF earlier = 1 THEN 2 ELSE 4

OfDate(entries) == { entry \in entries : entry.amount = AmountOn(entry.date) }

StoredAmounts == {AmountOn(date) : date \in Dates}

\* the documents of a user that hold at most budget entries
Contents(user, budget) ==
    LET owners == Refs \cap Users
        revenues == OfDate(IDashboardRevenue(StoredAmounts, Dates, owners))
        receivables == OfDate(IDashboardReceivable(StoredAmounts, Dates, owners))
        expenses == OfDate(IDashboardExpense(StoredAmounts, Dates))
    IN  UNION { [user : {user},
                 revenues : Stored(revenues, n[1]),
                 receivables : Stored(receivables, n[2]),
                 expenses : Stored(expenses, n[3])] :
                n \in { m \in (0..budget) \X (0..budget) \X (0..budget) :
                            m[1] + m[2] + m[3] <= budget } }

Entries(doc) == Len(doc.revenues) + Len(doc.receivables) + Len(doc.expenses)

RECURSIVE Collections(_, _, _)
\* the collections of a layout that hold at most budget entries
Collections(layout, ids, budget) ==
    IF ids = {} THEN {<<>>}
    ELSE LET id == CHOOSE i \in ids : TRUE
         IN  UNION { { (id :> doc) @@ rest :
                        rest \in Collections(layout, ids \ {id}, budget - Entries(doc)) } :
                     doc \in Contents(layout[id], budget) }

InitRead ==
    /\ \E layout \in Layouts :
          /\ \A i, j \in DOMAIN layout : layout[i] = layout[j] => i = j
          /\ dashboards \in Collections(layout, DOMAIN layout, MaxEntries)
    /\ calls = [c \in CallIds |-> Idle]
    /\ resp = NoResp

NextRead ==
    \E userId \in Ids :
        \/ \E filter \in OverviewFilters, path \in DateFilterPaths :
              GetOverview(userId, filter, path)
        \/ \E filter \in ChartsFilters, currentMonth \in NowMonths :
              GetCharts(userId, filter, currentMonth)

SpecRead == InitRead /\ [][NextRead]_vars

(***************************************************************************)
(* Properties of the create operations, checked under Spec.                *)
(***************************************************************************)
\* the documents of a user: those whose user field is the user
RecordsOf(collection, user) ==
    { id \in DOMAIN collection : collection[id].user = user }

\* the call holds a reference that resolves, where its operation has one
ValidReference(call) ==
    call.op \in Validating => getUserById(Reference(call.op, call.entry))

\* the call takes a step
Steps(c) == calls'[c] # calls[c]

\* the call ends in this step
Ends(c) == calls[c].pc # "done" /\ calls'[c].pc = "done"

\* C3: a createRevenue or createReceivable call whose reference resolves to
\* no user never reaches the update, ends with the user directory's
\* not-found error, and none of its steps changes a dashboard document.
C3_UnknownReferenceFailsFirst ==
    [][\A c \in CallIds :
        (Steps(c) /\ ~ValidReference(calls'[c])) =>
            /\ dashboards' = dashboards
            /\ calls'[c].pc \in {"getUserById", "done"}
            /\ calls'[c].pc = "done" => calls'[c].result = "UserNotFound"]_vars

\* C3 happens: a call was refused for its reference although a document
\* with its userId as _id exists
C3_Witness ==
    \E c \in CallIds :
        /\ calls[c].result = "UserNotFound"
        /\ calls[c].userId \in DOMAIN dashboards

\* C4: a create call with a valid reference, made for a userId that no
\* dashboard document belongs to, ends with DashboardDataNotFound and
\* changes no document.
C4_NoRecordFails ==
    [][\A c \in CallIds :
        (Ends(c) /\ ValidReference(calls'[c])
            /\ RecordsOf(dashboards, calls'[c].userId) = {}) =>
            /\ calls'[c].result = "DashboardDataNotFound"
            /\ dashboards' = dashboards]_vars

\* the number of stored instances of a call's entry in the collection the
\* call updates
Instances(call) ==
    LET array == dashboards[call.userId][Field(call.op)]
    IN  Cardinality({ i \in DOMAIN array : array[i] = call.entry })

\* two calls of the same operation with the same userId and entry
SameCall(c1, c2) ==
    /\ c1 # c2
    /\ calls[c1].result = "ok" /\ calls[c2].result = "ok"
    /\ calls[c1].op = calls[c2].op
    /\ calls[c1].userId = calls[c2].userId
    /\ calls[c1].entry = calls[c2].entry

\* C5: after two successful calls of one create operation with the same
\* entry on the same document, the collection holds one instance of it.
C5_AppendIdempotent ==
    \A c1, c2 \in CallIds : SameCall(c1, c2) => Instances(calls[c1]) = 1

\* C5 happens: two such calls have returned
C5_Witness ==
    \E c1, c2 \in CallIds : SameCall(c1, c2) /\ calls[c1].op = "createExpense"

IsPrefix(s, t) == Len(s) <= Len(t) /\ SubSeq(t, 1, Len(s)) = s

\* every stored entry stays where it is
EntriesKept ==
    \A id \in DOMAIN dashboards :
        /\ id \in DOMAIN dashboards'
        /\ dashboards'[id].user = dashboards[id].user
        /\ \A field \in {"revenues", "receivables", "expenses"} :
              IsPrefix(dashboards[id][field], dashboards'[id][field])

\* C9: in every interleaving of create calls, no step removes or changes a
\* stored entry, and the entry of every call that has returned is stored.
C9_NoLostUpdate ==
    [][/\ EntriesKept
       /\ \A c \in CallIds :
            calls'[c].result = "ok" =>
                calls'[c].entry \in
                    Range(dashboards'[calls'[c].userId][Field(calls'[c].op)])]_vars

\* C9 happens: two calls on one collection overlapped (the call invoked
\* first was overtaken by the second) and both entries are stored
C9_Witness ==
    \E c1, c2 \in CallIds :
        /\ c1 < c2
        /\ calls[c1].result = "ok" /\ calls[c2].result = "ok"
        /\ calls[c1].op = calls[c2].op
        /\ calls[c1].userId = calls[c2].userId
        /\ dashboards[calls[c1].userId][Field(calls[c1].op)]
                = <<calls[c2].entry, calls[c1].entry>>

\* the total of getOverview that sums the collection a create operation
\* updates
TotalOf(op, row) ==
    CASE op = "createRevenue" -> row.totalRevenue
      [] op = "createReceivable" -> row.totalReceivables
      [] op = "createExpense" -> row.totalExpenses

NoFilter == [date |-> NoDate, month |-> NoNumber, year |-> NoNumber]

\* C10: a create call with a valid reference, made for a user who has a
\* dashboard document, succeeds and its entry is stored in that document,
\* so that getOverview of the user without a filter sums it.
C10_SameRecord ==
    \A c \in CallIds :
        (calls[c].pc = "done" /\ ValidReference(calls[c])
            /\ RecordsOf(dashboards, calls[c].userId) # {}) =>
            /\ calls[c].result = "ok"
            /\ \A id \in RecordsOf(dashboards, calls[c].userId) :
                  calls[c].entry \in Range(dashboards[id][Field(calls[c].op)])
            /\ LET rows == OverviewResult(dashboards, calls[c].userId, NoFilter, "date")
               IN  /\ Len(rows) = 1
                   /\ TotalOf(calls[c].op, rows[1]) >= calls[c].entry.amount

(***************************************************************************)
(* Properties of the read operations, checked under SpecRead.              *)
(***************************************************************************)
\* the sum of the amounts of the entries of an array whose date matches
FilteredSum(array, dateFilter) == SumAt(array, Matching(array, dateFilter))

\* C1: in every row getOverview returns, under any filter, totalRevenue,
\* totalReceivables and totalExpenses are the sums over the entries of the
\* row's document whose date matches the filter.
C1_FilteredTotals ==
    resp.op = "getOverview" =>
        LET dateFilter ==
                createDateFilter(resp.filter.date, resp.filter.month, resp.filter.year)
        IN  \A i \in DOMAIN resp.result :
                LET doc == dashboards[resp.result[i]._id]
                IN  /\ resp.result[i].totalRevenue
                            = FilteredSum(doc.revenues, dateFilter)
                    /\ resp.result[i].totalReceivables
                            = FilteredSum(doc.receivables, dateFilter)
                    /\ resp.result[i].totalExpenses
                            = FilteredSum(doc.expenses, dateFilter)

\* C2: getOverview without a filter returns, as pendingReceivables, the sum
\* of the amounts of the receivables whose status is "Pending".
C2_PendingSum ==
    (resp.op = "getOverview" /\ resp.filter = NoFilter) =>
        \A i \in DOMAIN resp.result :
            LET receivables == dashboards[resp.result[i]._id].receivables
            IN  resp.result[i].pendingReceivables
                    = SumAt(receivables,
                            { k \in DOMAIN receivables : receivables[k].status = "Pending" })

\* the elements of an array whose date is in the range of a getCharts filter
InRange(array, filter) ==
    SelectSeq(array,
        LAMBDA entry :
            /\ filter.startDate # NoDate => DateGte(entry.date, filter.startDate)
            /\ filter.endDate # NoDate => DateLte(entry.date, filter.endDate))

\* C6: getCharts with a startDate or an endDate returns, for a document
\* with a revenue or an expense in the range, one row, and every row is
\* what the projection computes from the revenues and expenses in the range.
C6_RangeRestricted ==
    (resp.op = "getCharts" /\ resp.filter # [startDate |-> NoDate, endDate |-> NoDate]) =>
        /\ \A id \in RecordsOf(dashboards, resp.userId) :
              (InRange(dashboards[id].revenues, resp.filter) # <<>>
                    \/ InRange(dashboards[id].expenses, resp.filter) # <<>>) =>
                  Len(resp.result) = 1
        /\ \A i \in DOMAIN resp.result :
              LET id == resp.result[i]._id
                  inRange ==
                    [dashboards[id] EXCEPT
                        !.revenues = InRange(@, resp.filter),
                        !.expenses = InRange(@, resp.filter)]
              IN  resp.result[i]
                    = ChartsProject(id, inRange,
                        resp.result[i].currentMonthExpensesAndRevenuesBarChart.currentMonth)

\* C7: in every row getCharts returns without a date range, the labels of
\* the line chart are the names of the months before the current one, and
\* the data set values at each label are the sums of the amounts of the
\* revenues, and of the expenses, dated in the label's calendar month.
C7_MonthBuckets ==
    (resp.op = "getCharts" /\ resp.filter = [startDate |-> NoDate, endDate |-> NoDate]) =>
        \A i \in DOMAIN resp.result :
            LET doc == dashboards[resp.result[i]._id]
                chart == resp.result[i].revenuesAndExpensesLineChart
                currentMonth ==
                    resp.result[i].currentMonthExpensesAndRevenuesBarChart.currentMonth
            IN  /\ chart.labels = [m \in 1..currentMonth |-> months[m]]
                /\ \A m \in DOMAIN chart.labels :
                      /\ chart.revenueDataSet[m]
                            = SumAt(doc.revenues,
                                { k \in DOMAIN doc.revenues : doc.revenues[k].date.m = m })
                      /\ chart.expensesDataSet[m]
                            = SumAt(doc.expenses,
                                { k \in DOMAIN doc.expenses : doc.expenses[k].date.m = m })

=============================================================================
